---- MODULE Spec2Model ----
(***************************************************************************)
(* Model of the meal planner's shopping-list generation                    *)
(* (src/lib/shopping-list-generator.ts, generateShoppingList) against the  *)
(* tables of the schema that is appended to the same file.                 *)
(*                                                                         *)
(* An invocation is a process that moves from one await to the next; the   *)
(* store executes one request per step and either answers with data or     *)
(* with an error object.  Strings are sequences of one-character strings,  *)
(* so that the "name|unit" key and its split are computed as the code      *)
(* computes them.  A nullable column holds Null or Some(v).                *)
(*                                                                         *)
(* The callers are modelled with it: WeeklyPlannerTab (addMeal,            *)
(* removeMeal, generateShoppingListFromPlan and its button) and            *)
(* ShoppingListTab.fetchItems, each with its own specification.            *)
(***************************************************************************)
EXTENDS Integers, Sequences, FiniteSets, TLC

\* ------------------------------------------------------------------ bounds
MaxEntries == 2
MaxIngredientRows == 2
MaxLists == 3

\* ------------------------------------------------------------- nullables
Null == <<>>
Some(v) == <<v>>
IsNull(n) == n = <<>>
Get(n) == n[1]

\* --------------------------------------------------------------- strings
\* `${v}` of a string-or-null value: null prints as the four letters null.
TemplateString(u) == IF IsNull(u) THEN <<"n", "u", "l", "l">> ELSE Get(u)

\* String.prototype.split(sep) for a one-character separator.
RECURSIVE Split(_, _)
Split(s, sep) ==
  IF \A i \in 1..Len(s) : s[i] # sep
    THEN <<s>>
    ELSE LET i == CHOOSE k \in 1..Len(s) :
                    s[k] = sep /\ \A j \in 1..(k - 1) : s[j] # sep
         IN <<SubSeq(s, 1, i - 1)>> \o Split(SubSeq(s, i + 1, Len(s)), sep)

\* Mutant of ToNumber: null counts as one (a default of 1 for a missing number).
ToNumber_NullIsOne(n) == IF IsNull(n) THEN 1 ELSE Get(n)

\* JS ToNumber of a number-or-null operand of *: null is 0.
ToNumber(n) == IF IsNull(n) THEN 0 ELSE Get(n)
\* Mutant of Times: negative servings count as none.
Times_ClampedServings(a, b) == IF ToNumber(b) < 0 THEN 0 ELSE ToNumber(a) * ToNumber(b)

\* Mutant of Times: the servings are left out of the product.
Times_NoServings(a, b) == ToNumber(a)

Times(a, b) == ToNumber(a) * ToNumber(b)

\* ------------------------------------------------------- store contents
Users == {"u1", "u2"}
RecipeIds == {"A", "B"}
StoreErrors == {"FetchFailed", "Rejected"}
NotAuthenticated == "Not authenticated"

\* The one meal plan of the single-plan specifications.
PlanP1 == [id |-> "P1", start_date |-> 1, end_date |-> 3]

\* recipe_ingredients rows the initial store draws from: the same name with
\* different units, names and units that contain the separator, a null unit
\* and the unit spelled null, a null quantity.
IngredientCatalogue ==
  { [recipe_id |-> "A", ingredient_name |-> <<"a">>, quantity |-> Some(2),
     unit |-> Some(<<"x">>)],
    [recipe_id |-> "A", ingredient_name |-> <<"a", "|", "g">>, quantity |-> Some(1),
     unit |-> Some(<<"x">>)],
    [recipe_id |-> "B", ingredient_name |-> <<"a">>, quantity |-> Some(1),
     unit |-> Some(<<"g", "|", "x">>)],
    [recipe_id |-> "B", ingredient_name |-> <<"a">>, quantity |-> Some(1),
     unit |-> Some(<<"x">>)],
    [recipe_id |-> "A", ingredient_name |-> <<"a">>, quantity |-> Some(2),
     unit |-> Null],
    [recipe_id |-> "B", ingredient_name |-> <<"a">>, quantity |-> Some(1),
     unit |-> Some(<<"n", "u", "l", "l">>)],
    [recipe_id |-> "B", ingredient_name |-> <<"a">>, quantity |-> Null,
     unit |-> Some(<<"x">>)] }

\* meal_plan_entries rows of plan P1 inside its date range.
EntryCatalogue ==
  { [meal_plan_id |-> "P1", recipe_id |-> Null, meal_date |-> 2, servings |-> Some(1)] }
  \cup { [meal_plan_id |-> "P1", recipe_id |-> Some(r), meal_date |-> 2,
          servings |-> Some(s)] : r \in RecipeIds, s \in {1, 3} }

SeqsUpTo(S, n) == UNION { [1..k -> S] : k \in 0..n }

\* A second plan, whose date range overlaps the first one's.
PlanP2 == [id |-> "P2", start_date |-> 2, end_date |-> 4]

\* meal_plan_entries rows of both plans, dated before, at the ends of, inside
\* and after the plans' ranges.
DatedEntryCatalogue ==
  { [meal_plan_id |-> m, recipe_id |-> Some("A"), meal_date |-> d, servings |-> Some(1)] :
      m \in {"P1", "P2"}, d \in 0..4 }

\* meal_plan_entries rows of plan P1 whose servings are negative, zero or positive.
SignedEntryCatalogue ==
  { [meal_plan_id |-> "P1", recipe_id |-> Some(r), meal_date |-> 2, servings |-> Some(s)] :
      r \in RecipeIds, s \in {-1, 0, 2} }

\* The catalogue rows whose name and unit hold no separator and whose unit is
\* not spelled null.
PlainIngredientCatalogue ==
  { r \in IngredientCatalogue :
      /\ \A i \in 1..Len(r.ingredient_name) : r.ingredient_name[i] # "|"
      /\ IsNull(r.unit) \/ Len(Get(r.unit)) = 1 }

\* The week of the end-to-end scenario: 2024-01-01 .. 2024-01-07 as days 1..7,
\* recipe A = Rice 100 g, Egg 2 pcs; recipe B = Rice 50 g, Onion 1 pcs.
PlanWeek == [id |-> "P1", start_date |-> 1, end_date |-> 7]
Rice == <<"R", "i", "c", "e">>
Egg == <<"E", "g", "g">>
Onion == <<"O", "n", "i", "o", "n">>
Grams == <<"g">>
Pieces == <<"p", "c", "s">>
ScenarioEntries ==
  << [meal_plan_id |-> "P1", recipe_id |-> Some("A"), meal_date |-> 2, servings |-> Some(2)],
     [meal_plan_id |-> "P1", recipe_id |-> Some("B"), meal_date |-> 5, servings |-> Some(1)] >>
ScenarioIngredients ==
  << [recipe_id |-> "A", ingredient_name |-> Rice, quantity |-> Some(100), unit |-> Some(Grams)],
     [recipe_id |-> "A", ingredient_name |-> Egg, quantity |-> Some(2), unit |-> Some(Pieces)],
     [recipe_id |-> "B", ingredient_name |-> Rice, quantity |-> Some(50), unit |-> Some(Grams)],
     [recipe_id |-> "B", ingredient_name |-> Onion, quantity |-> Some(1), unit |-> Some(Pieces)] >>

\* ------------------------------------------------------------ invocations
Procs == {"c1", "c2"}

VARIABLES
  meal_plans,          \* table: set of rows
  meal_plan_entries,   \* table: rows in the order a select returns them
  recipe_ingredients,  \* table: rows in the order a select returns them
  shopping_lists,      \* table: rows in insertion order; id = position
  shopping_list_items, \* table: rows in insertion order
  pc,                  \* per invocation: the await it is at
  args,                \* per invocation: mealPlanId, startDate, endDate
  authData,            \* per invocation: authData.user
  mealEntries,         \* per invocation: result of the entries select
  idx,                 \* per invocation: position of the for-of loop
  ingredients,         \* per invocation: the accumulator object, keys in insertion order
  shoppingListItems,   \* per invocation: the mapped items
  newList,             \* per invocation: the created list row
  outcome,             \* per invocation: returned value or thrown error
  ops,                 \* history: store requests the invocation had executed
  fetched,             \* history: ingredient rows the invocation accumulated
  mealPlan,            \* WeeklyPlannerTab state: the plan it shows, or null
  isGenerating,        \* WeeklyPlannerTab state
  awaited,             \* per invocation: generateShoppingListFromPlan awaits it
  nextId,              \* meal_plan_entries: rows inserted so far (ids are never reused)
  fiPc,                \* ShoppingListTab.fetchItems: the await it is at
  fiUser,              \* ShoppingListTab.fetchItems: authData.user
  fiSaw                \* history: lists the user owned when fetchItems selected

store == <<meal_plans, meal_plan_entries, recipe_ingredients>>
lists == <<shopping_lists, shopping_list_items>>
locals == <<args, authData, mealEntries, idx, ingredients, shoppingListItems, newList>>
planner == <<mealPlan, isGenerating, awaited, nextId>>
shopping == <<fiPc, fiUser, fiSaw>>
ui == <<planner, shopping>>
vars == <<store, lists, pc, locals, outcome, ops, fetched, ui>>

\* ------------------------------------------------------------ aggregation
\* The accumulator key of one ingredient row (template literal of line 38).
KeyOf(ingredient) ==
  ingredient.ingredient_name \o <<"|">> \o TemplateString(ingredient.unit)

\* Position of a key in the accumulator, 0 when ingredients[key] is undefined.
SlotOf(acc, key) ==
  IF \E i \in 1..Len(acc) : acc[i].key = key
    THEN CHOOSE i \in 1..Len(acc) : acc[i].key = key
    ELSE 0

\* Body of the inner loop for one ingredient row of one entry.
Accumulate(acc, ingredient, entry) ==
  LET key == KeyOf(ingredient)
      acc1 == IF SlotOf(acc, key) = 0
                THEN Append(acc, [key |-> key, quantity |-> 0, unit |-> ingredient.unit])
                ELSE acc
      i == SlotOf(acc1, key)
  IN [acc1 EXCEPT ![i].quantity = @ + Times(ingredient.quantity, entry.servings)]

\* The inner loop over the rows fetched for one entry.
RECURSIVE AccumulateAll(_, _, _)
AccumulateAll(acc, rows, entry) ==
  IF rows = <<>>
    THEN acc
    ELSE AccumulateAll(Accumulate(acc, Head(rows), entry), Tail(rows), entry)

\* Object.entries(ingredients).map(...): the items to insert.
MapItems(acc) ==
  [i \in 1..Len(acc) |->
     [product_name |-> Split(acc[i].key, "|")[1],
      quantity |-> acc[i].quantity,
      unit |-> acc[i].unit,
      is_purchased |-> FALSE]]

\* Mutant of WithListId: the items go under the first list of the table.
WithListId_FirstList(items, listId) ==
  [i \in 1..Len(items) |->
     [shopping_list_id |-> 1,
      product_name |-> items[i].product_name,
      quantity |-> items[i].quantity,
      unit |-> items[i].unit,
      is_purchased |-> items[i].is_purchased]]

\* itemsWithListId: every item with the id of the new list.
WithListId(items, listId) ==
  [i \in 1..Len(items) |->
     [shopping_list_id |-> listId,
      product_name |-> items[i].product_name,
      quantity |-> items[i].quantity,
      unit |-> items[i].unit,
      is_purchased |-> items[i].is_purchased]]

\* ------------------------------------------------------- store requests
\* Mutant of QueryMealEntries: the end of the range is excluded (lt for lte).
QueryMealEntries_ExclusiveEnd(a) ==
  LET hit == SelectSeq(meal_plan_entries,
                       LAMBDA e : /\ e.meal_plan_id = a.mealPlanId
                                  /\ e.meal_date >= a.startDate
                                  /\ e.meal_date < a.endDate)
  IN [i \in 1..Len(hit) |-> [recipe_id |-> hit[i].recipe_id, servings |-> hit[i].servings]]

\* select recipe_id, servings from meal_plan_entries where meal_plan_id = ...
\* and meal_date >= startDate and meal_date <= endDate.
QueryMealEntries(a) ==
  LET hit == SelectSeq(meal_plan_entries,
                       LAMBDA e : /\ e.meal_plan_id = a.mealPlanId
                                  /\ e.meal_date >= a.startDate
                                  /\ e.meal_date <= a.endDate)
  IN [i \in 1..Len(hit) |-> [recipe_id |-> hit[i].recipe_id, servings |-> hit[i].servings]]

\* select ingredient_name, quantity, unit from recipe_ingredients where recipe_id = ...
QueryRecipeIngredients(recipeId) ==
  LET hit == SelectSeq(recipe_ingredients, LAMBDA r : r.recipe_id = recipeId)
  IN [i \in 1..Len(hit) |->
        [ingredient_name |-> hit[i].ingredient_name,
         quantity |-> hit[i].quantity,
         unit |-> hit[i].unit]]

\* Mutant of NewListRow: the two dates change places in the name.
NewListRow_SwappedDates(user, a, id) ==
  [id |-> id,
   user_id |-> user,
   meal_plan_id |-> a.mealPlanId,
   name |-> <<"Shopping List for ", a.endDate, " to ", a.startDate>>]

\* The row a shopping_lists insert writes for an invocation.
NewListRow(user, a, id) ==
  [id |-> id,
   user_id |-> user,
   meal_plan_id |-> a.mealPlanId,
   name |-> <<"Shopping List for ", a.startDate, " to ", a.endDate>>]

\* The elements of s at the positions in S, in order.
Pick(s, S) ==
  LET F[i \in 0..Len(s)] ==
        IF i = 0 THEN <<>>
        ELSE IF i \in S THEN Append(F[i - 1], s[i]) ELSE F[i - 1]
  IN F[Len(s)]

Op(verb, table, ok, rows) == [verb |-> verb, table |-> table, ok |-> ok, rows |-> rows]
Log(p, op) == ops' = [ops EXCEPT ![p] = Append(@, op)]

\* ---------------------------------------------------------- control flow
\* Mutant of NextFetch: an entry without a recipe ends the loop (break for continue).
NextFetch_Break(entries, from) ==
  IF from <= Len(entries) /\ ~IsNull(entries[from].recipe_id) THEN from ELSE 0

\* Mutant of NextFetch: an entry whose recipe an earlier entry has named is
\* passed over, as if its rows were already merged.
NextFetch_SkipRepeated(entries, from) ==
  IF \E i \in from..Len(entries) :
       /\ ~IsNull(entries[i].recipe_id)
       /\ \A j \in 1..(i - 1) : entries[j].recipe_id # entries[i].recipe_id
    THEN CHOOSE i \in from..Len(entries) :
           /\ ~IsNull(entries[i].recipe_id)
           /\ \A j \in 1..(i - 1) : entries[j].recipe_id # entries[i].recipe_id
           /\ \A k \in from..(i - 1) :
                \/ IsNull(entries[k].recipe_id)
                \/ \E j \in 1..(k - 1) : entries[j].recipe_id = entries[k].recipe_id
    ELSE 0

\* First entry at or after position from whose recipe_id is set, 0 if none.
NextFetch(entries, from) ==
  IF \E i \in from..Len(entries) : ~IsNull(entries[i].recipe_id)
    THEN CHOOSE i \in from..Len(entries) :
           /\ ~IsNull(entries[i].recipe_id)
           /\ \A j \in from..(i - 1) : IsNull(entries[j].recipe_id)
    ELSE 0

\* Mutant of Continue: an empty accumulator is rejected instead of inserted.
Continue_ThrowOnEmpty(p, entries, from, acc) ==
  LET i == NextFetch(entries, from)
  IN IF i # 0
       THEN /\ pc' = [pc EXCEPT ![p] = "selectIngredients"]
            /\ idx' = [idx EXCEPT ![p] = i]
            /\ UNCHANGED shoppingListItems
       ELSE /\ pc' = [pc EXCEPT ![p] = IF acc = <<>> THEN "thrown" ELSE "insertList"]
            /\ idx' = [idx EXCEPT ![p] = Len(entries) + 1]
            /\ shoppingListItems' = [shoppingListItems EXCEPT ![p] = MapItems(acc)]

\* Mutant of Continue: the list is written as soon as something is merged,
\* whatever entries are left.
Continue_WriteEarly(p, entries, from, acc) ==
  LET i == NextFetch(entries, from)
  IN IF i # 0 /\ acc = <<>>
       THEN /\ pc' = [pc EXCEPT ![p] = "selectIngredients"]
            /\ idx' = [idx EXCEPT ![p] = i]
            /\ UNCHANGED shoppingListItems
       ELSE /\ pc' = [pc EXCEPT ![p] = "insertList"]
            /\ idx' = [idx EXCEPT ![p] = IF i # 0 THEN from ELSE Len(entries) + 1]
            /\ shoppingListItems' = [shoppingListItems EXCEPT ![p] = MapItems(acc)]

\* The for-of loop from position from up to its next await; when the loop is
\* over, the items are mapped and the shopping_lists insert is awaited.
Continue(p, entries, from, acc) ==
  LET i == NextFetch(entries, from)
  IN IF i # 0
       THEN /\ pc' = [pc EXCEPT ![p] = "selectIngredients"]
            /\ idx' = [idx EXCEPT ![p] = i]
            /\ UNCHANGED shoppingListItems
       ELSE /\ pc' = [pc EXCEPT ![p] = "insertList"]
            /\ idx' = [idx EXCEPT ![p] = Len(entries) + 1]
            /\ shoppingListItems' = [shoppingListItems EXCEPT ![p] = MapItems(acc)]

\* throw inside the try block: the catch logs and rethrows the same error.
Throw(p, error) ==
  /\ pc' = [pc EXCEPT ![p] = "thrown"]
  /\ outcome' = [outcome EXCEPT ![p] = Some([kind |-> "thrown", error |-> error])]

\* generateShoppingListFromPlan calls generateShoppingList(plan.id, start, end).
Call(p) ==
  /\ pc[p] = "idle"
  /\ \E plan \in meal_plans :
       args' = [args EXCEPT ![p] = [mealPlanId |-> plan.id,
                                     startDate |-> plan.start_date,
                                     endDate |-> plan.end_date]]
  /\ pc' = [pc EXCEPT ![p] = "getUser"]
  /\ UNCHANGED <<ui, store, lists, authData, mealEntries, idx, ingredients,
                 shoppingListItems, newList, outcome, ops, fetched>>

\* auth.getUser() answers with a user: the entries select is awaited.
GetUserOk(p) ==
  /\ pc[p] = "getUser"
  /\ \E u \in Users : authData' = [authData EXCEPT ![p] = Some(u)]
  /\ pc' = [pc EXCEPT ![p] = "selectEntries"]
  /\ Log(p, Op("getUser", "auth", TRUE, 0))
  /\ UNCHANGED <<ui, store, lists, args, mealEntries, idx, ingredients,
                 shoppingListItems, newList, outcome, fetched>>

\* Mutant of GetUserNone: the user is checked only after the entries select.
GetUserNone_CheckedLate(p) ==
  /\ pc[p] = "getUser"
  /\ authData' = [authData EXCEPT ![p] = Null]
  /\ Throw(p, NotAuthenticated)
  /\ ops' = [ops EXCEPT ![p] = @ \o <<Op("getUser", "auth", FALSE, 0),
                                      Op("select", "meal_plan_entries", TRUE, 0)>>]
  /\ UNCHANGED <<ui, store, lists, args, mealEntries, idx, ingredients,
                 shoppingListItems, newList, fetched>>

\* auth.getUser() answers without a user.
GetUserNone(p) ==
  /\ pc[p] = "getUser"
  /\ authData' = [authData EXCEPT ![p] = Null]
  /\ Throw(p, NotAuthenticated)
  /\ Log(p, Op("getUser", "auth", FALSE, 0))
  /\ UNCHANGED <<ui, store, lists, args, mealEntries, idx, ingredients,
                 shoppingListItems, newList, fetched>>

\* Mutant of SelectEntriesOk: the accumulator is not created anew (line 25)
\* but is the one an earlier call has left behind.
SelectEntriesOk_StaleAccumulator(p) ==
  /\ pc[p] = "selectEntries"
  /\ LET entries == QueryMealEntries(args[p])
         left == { q \in Procs : pc[q] = "done" /\ ingredients[q] # <<>> }
         acc == IF left = {} THEN <<>> ELSE ingredients[CHOOSE q \in left : TRUE]
     IN /\ mealEntries' = [mealEntries EXCEPT ![p] = entries]
        /\ ingredients' = [ingredients EXCEPT ![p] = acc]
        /\ Continue(p, entries, 1, acc)
  /\ Log(p, Op("select", "meal_plan_entries", TRUE, 0))
  /\ UNCHANGED <<ui, store, lists, args, authData, newList, outcome, fetched>>

\* The entries select answers with rows.
SelectEntriesOk(p) ==
  /\ pc[p] = "selectEntries"
  /\ LET entries == QueryMealEntries(args[p])
     IN /\ mealEntries' = [mealEntries EXCEPT ![p] = entries]
        /\ Continue(p, entries, 1, ingredients[p])
  /\ Log(p, Op("select", "meal_plan_entries", TRUE, 0))
  /\ UNCHANGED <<ui, store, lists, args, authData, ingredients, newList, outcome, fetched>>

\* Mutant of SelectEntriesFail: the error is dropped and the data read as [].
SelectEntriesFail_Ignored(p) ==
  /\ pc[p] = "selectEntries"
  /\ mealEntries' = [mealEntries EXCEPT ![p] = <<>>]
  /\ Continue(p, <<>>, 1, ingredients[p])
  /\ Log(p, Op("select", "meal_plan_entries", FALSE, 0))
  /\ UNCHANGED <<ui, store, lists, args, authData, ingredients, newList, outcome, fetched>>

\* The entries select answers with an error.
SelectEntriesFail(p) ==
  /\ pc[p] = "selectEntries"
  /\ \E e \in StoreErrors : Throw(p, e)
  /\ Log(p, Op("select", "meal_plan_entries", FALSE, 0))
  /\ UNCHANGED <<ui, store, lists, locals, fetched>>

\* The ingredients select of the current entry answers with rows, which are
\* accumulated before the loop goes on.
SelectIngredientsOk(p) ==
  /\ pc[p] = "selectIngredients"
  /\ LET entry == mealEntries[p][idx[p]]
         rows == QueryRecipeIngredients(Get(entry.recipe_id))
         acc == AccumulateAll(ingredients[p], rows, entry)
     IN /\ ingredients' = [ingredients EXCEPT ![p] = acc]
        /\ fetched' = [fetched EXCEPT ![p] = @ \o
             [i \in 1..Len(rows) |->
                [ingredient_name |-> rows[i].ingredient_name,
                 unit |-> rows[i].unit,
                 quantity |-> rows[i].quantity,
                 servings |-> entry.servings,
                 entry |-> idx[p],
                 slot |-> SlotOf(acc, KeyOf(rows[i]))]]]
        /\ Continue(p, mealEntries[p], idx[p] + 1, acc)
  /\ Log(p, Op("select", "recipe_ingredients", TRUE, 0))
  /\ UNCHANGED <<ui, store, lists, args, authData, mealEntries, newList, outcome>>

\* Mutant of SelectIngredientsFail: the entry is skipped and the loop goes on.
SelectIngredientsFail_Skipped(p) ==
  /\ pc[p] = "selectIngredients"
  /\ Continue(p, mealEntries[p], idx[p] + 1, ingredients[p])
  /\ Log(p, Op("select", "recipe_ingredients", FALSE, 0))
  /\ UNCHANGED <<ui, store, lists, args, authData, mealEntries, ingredients, newList,
                 outcome, fetched>>

\* The ingredients select of the current entry answers with an error.
SelectIngredientsFail(p) ==
  /\ pc[p] = "selectIngredients"
  /\ \E e \in StoreErrors : Throw(p, e)
  /\ Log(p, Op("select", "recipe_ingredients", FALSE, 0))
  /\ UNCHANGED <<ui, store, lists, locals, fetched>>

\* Mutant of InsertListOk: the lists already generated for the plan are
\* deleted before the new one is inserted.
InsertListOk_ReplacePlanList(p) ==
  /\ pc[p] = "insertList"
  /\ LET row == NewListRow(Get(authData[p]), args[p], Len(shopping_lists) + 1)
     IN /\ shopping_lists' =
             Append(SelectSeq(shopping_lists,
                              LAMBDA l : l.meal_plan_id # args[p].mealPlanId), row)
        /\ newList' = [newList EXCEPT ![p] = Some([id |-> row.id])]
  /\ pc' = [pc EXCEPT ![p] = "insertItems"]
  /\ Log(p, Op("insert", "shopping_lists", TRUE, 1))
  /\ UNCHANGED <<ui, store, shopping_list_items, args, authData, mealEntries, idx,
                 ingredients, shoppingListItems, outcome, fetched>>

\* Mutant of InsertListOk: a list that exists for the plan is used again
\* instead of a new one (an upsert by meal plan).
InsertListOk_ReusePlanList(p) ==
  /\ pc[p] = "insertList"
  /\ LET row == NewListRow(Get(authData[p]), args[p], Len(shopping_lists) + 1)
         same == { i \in 1..Len(shopping_lists) :
                     shopping_lists[i].meal_plan_id = args[p].mealPlanId }
     IN IF same = {}
          THEN /\ shopping_lists' = Append(shopping_lists, row)
               /\ newList' = [newList EXCEPT ![p] = Some([id |-> row.id])]
          ELSE /\ UNCHANGED shopping_lists
               /\ newList' = [newList EXCEPT ![p] =
                    Some([id |-> shopping_lists[CHOOSE i \in same : TRUE].id])]
  /\ pc' = [pc EXCEPT ![p] = "insertItems"]
  /\ Log(p, Op("insert", "shopping_lists", TRUE, 1))
  /\ UNCHANGED <<ui, store, shopping_list_items, args, authData, mealEntries, idx,
                 ingredients, shoppingListItems, outcome, fetched>>

\* The shopping_lists insert succeeds: the items insert is awaited.
InsertListOk(p) ==
  /\ pc[p] = "insertList"
  /\ LET row == NewListRow(Get(authData[p]), args[p], Len(shopping_lists) + 1)
     IN /\ shopping_lists' = Append(shopping_lists, row)
        /\ newList' = [newList EXCEPT ![p] = Some([id |-> row.id])]
  /\ pc' = [pc EXCEPT ![p] = "insertItems"]
  /\ Log(p, Op("insert", "shopping_lists", TRUE, 1))
  /\ UNCHANGED <<ui, store, shopping_list_items, args, authData, mealEntries, idx,
                 ingredients, shoppingListItems, outcome, fetched>>

\* Mutant of InsertListFail: the error is dropped and the items are sent under
\* the id the list would have had.
InsertListFail_Ignored(p) ==
  /\ pc[p] = "insertList"
  /\ newList' = [newList EXCEPT ![p] = Some([id |-> Len(shopping_lists) + 1])]
  /\ pc' = [pc EXCEPT ![p] = "insertItems"]
  /\ Log(p, Op("insert", "shopping_lists", FALSE, 0))
  /\ UNCHANGED <<ui, store, lists, args, authData, mealEntries, idx, ingredients,
                 shoppingListItems, outcome, fetched>>

\* The shopping_lists insert answers with an error: no row is written.
InsertListFail(p) ==
  /\ pc[p] = "insertList"
  /\ \E e \in StoreErrors : Throw(p, e)
  /\ Log(p, Op("insert", "shopping_lists", FALSE, 0))
  /\ UNCHANGED <<ui, store, lists, locals, fetched>>

\* Mutant of InsertItemsOk: only the first item is sent to the store.
InsertItemsOk_FirstOnly(p) ==
  /\ pc[p] = "insertItems"
  /\ LET rows == WithListId(shoppingListItems[p], Get(newList[p]).id)
         sent == SubSeq(rows, 1, IF rows = <<>> THEN 0 ELSE 1)
     IN /\ shopping_list_items' = shopping_list_items \o sent
        /\ Log(p, Op("insert", "shopping_list_items", TRUE, Len(sent)))
  /\ pc' = [pc EXCEPT ![p] = "done"]
  /\ outcome' = [outcome EXCEPT ![p] =
       Some([kind |-> "returned",
             value |-> [success |-> TRUE,
                        listId |-> Get(newList[p]).id,
                        itemCount |-> Len(shoppingListItems[p])]])]
  /\ UNCHANGED <<ui, store, shopping_lists, locals, fetched>>

\* The shopping_list_items insert succeeds: the summary is returned.
InsertItemsOk(p) ==
  /\ pc[p] = "insertItems"
  /\ LET rows == WithListId(shoppingListItems[p], Get(newList[p]).id)
     IN /\ shopping_list_items' = shopping_list_items \o rows
        /\ Log(p, Op("insert", "shopping_list_items", TRUE, Len(rows)))
  /\ pc' = [pc EXCEPT ![p] = "done"]
  /\ outcome' = [outcome EXCEPT ![p] =
       Some([kind |-> "returned",
             value |-> [success |-> TRUE,
                        listId |-> Get(newList[p]).id,
                        itemCount |-> Len(shoppingListItems[p])]])]
  /\ UNCHANGED <<ui, store, shopping_lists, locals, fetched>>

\* Mutant of InsertItemsFail: the catch deletes the list it had created.
InsertItemsFail_Cleanup(p) ==
  /\ pc[p] = "insertItems"
  /\ shopping_lists' =
       SelectSeq(shopping_lists, LAMBDA l : l.id # Get(newList[p]).id)
  /\ ops' = [ops EXCEPT ![p] = @ \o <<Op("insert", "shopping_list_items", FALSE, 0),
                                      Op("delete", "shopping_lists", TRUE, 1)>>]
  /\ \E e \in StoreErrors : Throw(p, e)
  /\ UNCHANGED <<ui, store, shopping_list_items, locals, fetched>>

\* The shopping_list_items insert answers with an error; the store has kept
\* none or some of the rows, never all of them.
InsertItemsFail(p) ==
  /\ pc[p] = "insertItems"
  /\ LET rows == WithListId(shoppingListItems[p], Get(newList[p]).id)
     IN \E S \in SUBSET (1..Len(rows)) :
          /\ S # 1..Len(rows) \/ rows = <<>>
          /\ shopping_list_items' = shopping_list_items \o Pick(rows, S)
          /\ Log(p, Op("insert", "shopping_list_items", FALSE, Cardinality(S)))
  /\ \E e \in StoreErrors : Throw(p, e)
  /\ UNCHANGED <<ui, store, shopping_lists, locals, fetched>>

Next ==
  \E p \in Procs :
    \/ Call(p)
    \/ GetUserOk(p)
    \/ GetUserNone(p)
    \/ SelectEntriesOk(p)
    \/ SelectEntriesFail(p)
    \/ SelectIngredientsOk(p)
    \/ SelectIngredientsFail(p)
    \/ InsertListOk(p)
    \/ InsertListFail(p)
    \/ InsertItemsOk(p)
    \/ InsertItemsFail(p)

\* ------------------------------------------------------ specifications
InitInvocations(callers) ==
  /\ pc = [p \in Procs |-> IF p \in callers THEN "idle" ELSE "unused"]
  /\ args = [p \in Procs |-> Null]
  /\ authData = [p \in Procs |-> Null]
  /\ mealEntries = [p \in Procs |-> <<>>]
  /\ idx = [p \in Procs |-> 0]
  /\ ingredients = [p \in Procs |-> <<>>]
  /\ shoppingListItems = [p \in Procs |-> <<>>]
  /\ newList = [p \in Procs |-> Null]
  /\ outcome = [p \in Procs |-> Null]
  /\ ops = [p \in Procs |-> <<>>]
  /\ fetched = [p \in Procs |-> <<>>]
  /\ awaited = [p \in Procs |-> FALSE]
  /\ isGenerating = FALSE
  /\ mealPlan = Null
  /\ nextId = 1
  /\ fiPc = "idle"
  /\ fiUser = Null
  /\ fiSaw = 0

\* One invocation against every small store over the catalogues.
Init ==
  /\ meal_plans = {PlanP1}
  /\ meal_plan_entries \in SeqsUpTo(EntryCatalogue, MaxEntries)
  /\ recipe_ingredients \in SeqsUpTo(IngredientCatalogue, MaxIngredientRows)
  /\ shopping_lists = <<>>
  /\ shopping_list_items = <<>>
  /\ InitInvocations({"c1"})

Spec == Init /\ [][Next]_vars

\* Two invocations, interleaved at their awaits, against a one-entry store.
InitTwo ==
  /\ meal_plans = {PlanP1}
  /\ meal_plan_entries \in SeqsUpTo(EntryCatalogue, 1)
  /\ recipe_ingredients \in SeqsUpTo(IngredientCatalogue, 1)
  /\ shopping_lists = <<>>
  /\ shopping_list_items = <<>>
  /\ InitInvocations(Procs)

SpecTwo == InitTwo /\ [][Next]_vars

\* One invocation for either of two plans, against entries of both plans
\* dated in and out of their ranges; recipe A has two plain rows.
InitDates ==
  /\ meal_plans = {PlanP1, PlanP2}
  /\ meal_plan_entries \in SeqsUpTo(DatedEntryCatalogue, MaxEntries)
  /\ recipe_ingredients \in
       { s \in SeqsUpTo(PlainIngredientCatalogue, 2) : Len(s) = 2 /\ s[1].recipe_id = "A" }
  /\ shopping_lists = <<>>
  /\ shopping_list_items = <<>>
  /\ InitInvocations({"c1"})

SpecDates == InitDates /\ [][Next]_vars

\* One invocation against entries with negative, zero and positive servings.
InitServings ==
  /\ meal_plans = {PlanP1}
  /\ meal_plan_entries \in SeqsUpTo(SignedEntryCatalogue, MaxEntries)
  /\ recipe_ingredients \in SeqsUpTo(PlainIngredientCatalogue, MaxIngredientRows)
  /\ shopping_lists = <<>>
  /\ shopping_list_items = <<>>
  /\ InitInvocations({"c1"})

SpecServings == InitServings /\ [][Next]_vars

\* Two invocations against the store of the end-to-end scenario.
InitScenario ==
  /\ meal_plans = {PlanWeek}
  /\ meal_plan_entries = ScenarioEntries
  /\ recipe_ingredients = ScenarioIngredients
  /\ shopping_lists = <<>>
  /\ shopping_list_items = <<>>
  /\ InitInvocations(Procs)

SpecScenario == InitScenario /\ [][Next]_vars

\* ------------------------------------------------------------ the planner
\* WeeklyPlannerTab (src/components/weekly-planner-tab.tsx): one mounted
\* component.  It refetches the entries after every change, so what it shows
\* is what the table holds.
MealTypes == <<"breakfast", "lunch", "dinner", "snack">>

Digits == <<"0", "1", "2", "3", "4", "5", "6", "7", "8", "9">>
IsDigit(c) == \E d \in 1..Len(Digits) : Digits[d] = c
DigitValue(c) == (CHOOSE d \in 1..Len(Digits) : Digits[d] = c) - 1
AllDigits(s) == \A i \in 1..Len(s) : IsDigit(s[i])

\* The value an <input type="number"> reports for the text in it: the text
\* when it is a valid floating-point number (without exponent), else "".
NumberInputValue(text) ==
  LET body == IF text # <<>> /\ text[1] = "-" THEN Tail(text) ELSE text
      dots == { i \in 1..Len(body) : body[i] = "." }
      valid == IF dots = {}
                 THEN body # <<>> /\ AllDigits(body)
                 ELSE /\ Cardinality(dots) = 1
                      /\ LET k == CHOOSE i \in dots : TRUE
                         IN /\ AllDigits(SubSeq(body, 1, k - 1))
                            /\ k < Len(body)
                            /\ AllDigits(SubSeq(body, k + 1, Len(body)))
  IN IF valid THEN text ELSE <<>>

\* Value of a string of digits.
RECURSIVE DigitsValue(_)
DigitsValue(s) ==
  IF s = <<>> THEN 0 ELSE 10 * DigitsValue(SubSeq(s, 1, Len(s) - 1)) + DigitValue(s[Len(s)])

\* Number.parseInt(s): leading blanks, a sign, then the digits up to the first
\* other character; NaN (null here) when there is no digit.
ParseInt(s) ==
  LET blanks == IF \E i \in 1..Len(s) : s[i] # " "
                  THEN (CHOOSE i \in 1..Len(s) :
                          s[i] # " " /\ \A j \in 1..(i - 1) : s[j] = " ") - 1
                  ELSE Len(s)
      t == SubSeq(s, blanks + 1, Len(s))
      signed == t # <<>> /\ t[1] \in {"-", "+"}
      body == IF signed THEN Tail(t) ELSE t
      n == IF AllDigits(body)
             THEN Len(body)
             ELSE (CHOOSE i \in 1..Len(body) :
                     ~IsDigit(body[i]) /\ AllDigits(SubSeq(body, 1, i - 1))) - 1
      value == DigitsValue(SubSeq(body, 1, n))
  IN IF n = 0 THEN Null
     ELSE Some(IF signed /\ t[1] = "-" THEN 0 - value ELSE value)

\* x || 1 for a number or NaN: NaN and 0 are falsy.
OrOne(n) == IF IsNull(n) \/ Get(n) = 0 THEN 1 ELSE Get(n)

\* Texts typed into the servings field.
ServingsTexts ==
  { <<>>, <<"0">>, <<"1">>, <<"-", "3">>, <<"1", ".", "5">>, <<" ", "3">>, <<"x">> }

\* The recipes the dialog of the planner lists.
PlannerRecipes == {"A"}

\* The environment's time zone: at the UTC hour at, local clocks are moved
\* forward by shift hours (0: no change in the plan's weeks).
Zones == { [at |-> 31, shift |-> s] : s \in {-1, 0, 1} }

\* current.setDate(current.getDate() + 1): the same local time on the next
\* local day, in UTC hours.
NextDay(current, z) ==
  current + 24 - (IF current < z.at /\ z.at <= current + 24 THEN z.shift ELSE 0)

\* The while loop of getDateRange: the UTC date of every instant it goes through.
RECURSIVE DatesFrom(_, _, _)
DatesFrom(current, end, z) ==
  IF current <= end
    THEN <<current \div 24>> \o DatesFrom(NextDay(current, z), end, z)
    ELSE <<>>

\* Mutant of GetDateRange: the loop runs one day past the end of the plan.
GetDateRange_PastEnd(plan, z) ==
  IF IsNull(plan)
    THEN <<>>
    ELSE DatesFrom(24 * Get(plan).start_date, 24 * (Get(plan).end_date + 1), z)

\* getDateRange(): the dates the planner offers, dates as day numbers.
GetDateRange(plan, z) ==
  IF IsNull(plan)
    THEN <<>>
    ELSE DatesFrom(24 * Get(plan).start_date, 24 * Get(plan).end_date, z)

\* meals.find(m => m.meal_date === date && m.meal_type === type): the entry
\* the planner shows in a slot, as a set of at most one row.
Displayed(date, type) ==
  LET hit == SelectSeq(meal_plan_entries,
                       LAMBDA e : /\ ~IsNull(mealPlan)
                                  /\ e.meal_plan_id = Get(mealPlan).id
                                  /\ e.meal_date >= Get(mealPlan).start_date
                                  /\ e.meal_date <= Get(mealPlan).end_date
                                  /\ e.meal_date = date
                                  /\ e.meal_type = type)
  IN IF hit = <<>> THEN {} ELSE {hit[1]}

\* The Generate button: disabled while isGenerating; its handler returns when
\* there is no plan, else sets isGenerating and calls generateShoppingList,
\* which runs up to its first await.  The call is a new invocation; as many
\* generations get as far as a list as the specification has invocations.
ClickGenerate(p) ==
  /\ ~isGenerating
  /\ pc[p] = "idle"
  /\ \A q \in Procs : (q # p /\ pc[q] = "idle") => p = "c1"
  /\ Len(shopping_lists) < Cardinality({ q \in Procs : pc[q] # "unused" })
  /\ IF IsNull(mealPlan)
       THEN UNCHANGED <<isGenerating, awaited, args, pc>>
       ELSE /\ isGenerating' = TRUE
            /\ awaited' = [awaited EXCEPT ![p] = TRUE]
            /\ args' = [args EXCEPT ![p] = [mealPlanId |-> Get(mealPlan).id,
                                             startDate |-> Get(mealPlan).start_date,
                                             endDate |-> Get(mealPlan).end_date]]
            /\ pc' = [pc EXCEPT ![p] = "getUser"]
  /\ UNCHANGED <<mealPlan, nextId, shopping, store, lists, authData, mealEntries, idx,
                 ingredients, shoppingListItems, newList, outcome, ops, fetched>>

\* The invocation is over: its locals are gone and the next call is a new one.
Forget(p) ==
  /\ pc' = [pc EXCEPT ![p] = "idle"]
  /\ args' = [args EXCEPT ![p] = Null]
  /\ authData' = [authData EXCEPT ![p] = Null]
  /\ mealEntries' = [mealEntries EXCEPT ![p] = <<>>]
  /\ idx' = [idx EXCEPT ![p] = 0]
  /\ ingredients' = [ingredients EXCEPT ![p] = <<>>]
  /\ shoppingListItems' = [shoppingListItems EXCEPT ![p] = <<>>]
  /\ newList' = [newList EXCEPT ![p] = Null]
  /\ outcome' = [outcome EXCEPT ![p] = Null]
  /\ ops' = [ops EXCEPT ![p] = <<>>]
  /\ fetched' = [fetched EXCEPT ![p] = <<>>]

\* Mutant of Settle: isGenerating is reset at the end of the try block only.
Settle_OnlyOnSuccess(p) ==
  /\ awaited[p]
  /\ pc[p] \in {"done", "thrown"}
  /\ awaited' = [awaited EXCEPT ![p] = FALSE]
  /\ isGenerating' = IF pc[p] = "done" THEN FALSE ELSE isGenerating
  /\ Forget(p)
  /\ UNCHANGED <<mealPlan, nextId, shopping, store, lists>>

\* generateShoppingListFromPlan resumes after the call has returned or
\* thrown: toast, then finally setIsGenerating(false).
Settle(p) ==
  /\ awaited[p]
  /\ pc[p] \in {"done", "thrown"}
  /\ awaited' = [awaited EXCEPT ![p] = FALSE]
  /\ isGenerating' = FALSE
  /\ Forget(p)
  /\ UNCHANGED <<mealPlan, nextId, shopping, store, lists>>

\* The dates the planner offers in some time zone.
OfferedDates ==
  UNION { { GetDateRange(mealPlan, z)[i] : i \in 1..Len(GetDateRange(mealPlan, z)) } :
            z \in Zones }

\* The rows addMeal can send to the store: the date is one the planner
\* offers, the type one of mealTypes, the recipe one of the list, the
\* servings come from any text; with a field left empty addMeal returns.
AddMealRows ==
  { [id |-> nextId,
     meal_plan_id |-> Get(mealPlan).id,
     recipe_id |-> Some(selectedRecipeId),
     meal_date |-> selectedDate,
     meal_type |-> MealTypes[t],
     servings |-> Some(OrOne(ParseInt(NumberInputValue(text))))] :
       selectedDate \in OfferedDates, t \in 1..Len(MealTypes),
       selectedRecipeId \in PlannerRecipes, text \in ServingsTexts }

\* addMeal with the fields of the dialog filled: the insert succeeds, or it
\* fails and nothing changes.
AddMeal ==
  /\ nextId <= MaxEntries
  /\ \E row \in AddMealRows, ok \in BOOLEAN :
       IF ok
         THEN /\ meal_plan_entries' = Append(meal_plan_entries, row)
              /\ nextId' = nextId + 1
         ELSE UNCHANGED <<meal_plan_entries, nextId>>
  /\ UNCHANGED <<mealPlan, isGenerating, awaited, shopping, meal_plans, recipe_ingredients,
                 lists, pc, locals, outcome, ops, fetched>>

\* removeMeal(id) from the Remove button of a displayed entry: the delete
\* succeeds or fails.
RemoveMeal ==
  /\ \E i \in 1..Len(meal_plan_entries), ok \in BOOLEAN :
       /\ meal_plan_entries[i] \in
            Displayed(meal_plan_entries[i].meal_date, meal_plan_entries[i].meal_type)
       /\ meal_plan_entries' =
            IF ok THEN SelectSeq(meal_plan_entries,
                                 LAMBDA e : e.id # meal_plan_entries[i].id)
                  ELSE meal_plan_entries
  /\ UNCHANGED <<ui, meal_plans, recipe_ingredients, lists, pc, locals, outcome, ops, fetched>>

NextPlanner ==
  \/ AddMeal
  \/ RemoveMeal
  \/ \E p \in Procs :
       \/ ClickGenerate(p)
       \/ Settle(p)
       \/ GetUserOk(p)
       \/ GetUserNone(p)
       \/ SelectEntriesOk(p)
       \/ SelectEntriesFail(p)
       \/ SelectIngredientsOk(p)
       \/ SelectIngredientsFail(p)
       \/ InsertListOk(p)
       \/ InsertListFail(p)
       \/ InsertItemsOk(p)
       \/ InsertItemsFail(p)

\* recipe_ingredients of the planner's specification: one row per recipe.
PlannerIngredients == <<ScenarioIngredients[1], ScenarioIngredients[4]>>

\* A plan of two days.
PlanShort == [id |-> "P1", start_date |-> 1, end_date |-> 2]

\* Every variable of InitInvocations but mealPlan.
InitInvocationsOf(callers) ==
  /\ pc = [p \in Procs |-> IF p \in callers THEN "idle" ELSE "unused"]
  /\ args = [p \in Procs |-> Null]
  /\ authData = [p \in Procs |-> Null]
  /\ mealEntries = [p \in Procs |-> <<>>]
  /\ idx = [p \in Procs |-> 0]
  /\ ingredients = [p \in Procs |-> <<>>]
  /\ shoppingListItems = [p \in Procs |-> <<>>]
  /\ newList = [p \in Procs |-> Null]
  /\ outcome = [p \in Procs |-> Null]
  /\ ops = [p \in Procs |-> <<>>]
  /\ fetched = [p \in Procs |-> <<>>]
  /\ awaited = [p \in Procs |-> FALSE]
  /\ isGenerating = FALSE
  /\ nextId = 1
  /\ fiPc = "idle"
  /\ fiUser = Null
  /\ fiSaw = 0

\* The planner with its plan loaded, or without one, over an empty plan; one
\* invocation at a time gets as far as a list.
InitPlanner ==
  /\ meal_plans = {PlanShort}
  /\ meal_plan_entries = <<>>
  /\ recipe_ingredients = PlannerIngredients
  /\ shopping_lists = <<>>
  /\ shopping_list_items = <<>>
  /\ mealPlan \in {Null} \cup { Some(plan) : plan \in meal_plans }
  /\ InitInvocationsOf({"c1"})

SpecPlanner == InitPlanner /\ [][NextPlanner]_vars

\* The Generate button alone, over every small plan: generations one after
\* the other, each a new invocation.
NextGenerate ==
  \E p \in Procs :
    \/ ClickGenerate(p)
    \/ Settle(p)
    \/ GetUserOk(p)
    \/ GetUserNone(p)
    \/ SelectEntriesOk(p)
    \/ SelectEntriesFail(p)
    \/ SelectIngredientsOk(p)
    \/ SelectIngredientsFail(p)
    \/ InsertListOk(p)
    \/ InsertListFail(p)
    \/ InsertItemsOk(p)
    \/ InsertItemsFail(p)

InitGenerate ==
  /\ meal_plans = {PlanP1}
  /\ meal_plan_entries \in SeqsUpTo(EntryCatalogue, MaxEntries)
  /\ recipe_ingredients \in SeqsUpTo(PlainIngredientCatalogue, 1)
  /\ shopping_lists = <<>>
  /\ shopping_list_items = <<>>
  /\ mealPlan \in {Null} \cup { Some(plan) : plan \in meal_plans }
  /\ InitInvocationsOf(Procs)

SpecGenerate == InitGenerate /\ [][NextGenerate]_vars

\* ------------------------------------------------------ the shopping tab
\* ShoppingListTab.fetchItems (src/components/shopping-list-tab.tsx).
PGRST116 == "PGRST116"

\* .single() on the rows a select has found: the row when there is exactly
\* one, else no data and the error PGRST116 (no row, or more than one).
Single(rows) ==
  IF Len(rows) = 1
    THEN [data |-> Some(rows[1]), error |-> Null]
    ELSE [data |-> Null, error |-> Some(PGRST116)]

\* fetchItems up to its second await: auth.getUser() answers with a user, or
\* with none and fetchItems returns.
FetchItemsGetUser ==
  /\ fiPc = "idle"
  /\ \/ \E u \in Users : fiUser' = Some(u) /\ fiPc' = "selectList"
     \/ fiUser' = Null /\ fiPc' = "idle"
  /\ UNCHANGED <<planner, fiSaw, store, lists, pc, locals, outcome, ops, fetched>>

\* The select of the user's list with .single(): another error than PGRST116
\* is thrown; without a list id the insert is awaited, else the items select.
FetchItemsSelectList ==
  /\ fiPc = "selectList"
  /\ LET owned == SelectSeq(shopping_lists, LAMBDA l : l.user_id = Get(fiUser))
         answer == Single(owned)
     IN \/ fiPc' = "idle" /\ UNCHANGED fiSaw
        \/ /\ fiSaw' = Len(owned)
           /\ fiPc' = IF IsNull(answer.data) THEN "insertList" ELSE "selectItems"
  /\ UNCHANGED <<planner, fiUser, store, lists, pc, locals, outcome, ops, fetched>>

\* The insert of the Current Shopping List row succeeds or fails.
FetchItemsInsertList ==
  /\ fiPc = "insertList"
  /\ Len(shopping_lists) < MaxLists
  /\ \/ /\ shopping_lists' = Append(shopping_lists,
               [id |-> Len(shopping_lists) + 1,
                user_id |-> Get(fiUser),
                meal_plan_id |-> Null,
                name |-> <<"Current Shopping List">>])
        /\ fiPc' = "selectItems"
     \/ /\ UNCHANGED shopping_lists
        /\ fiPc' = "idle"
  /\ UNCHANGED <<planner, fiUser, fiSaw, store, shopping_list_items, pc, locals, outcome,
                 ops, fetched>>

\* The items select answers, with rows or an error: fetchItems is over.
FetchItemsSelectItems ==
  /\ fiPc = "selectItems"
  /\ fiPc' = "idle"
  /\ UNCHANGED <<planner, fiUser, fiSaw, store, lists, pc, locals, outcome, ops, fetched>>

NextLists ==
  \/ FetchItemsGetUser
  \/ FetchItemsSelectList
  \/ FetchItemsInsertList
  \/ FetchItemsSelectItems
  \/ \E p \in Procs :
       \/ Call(p)
       \/ GetUserOk(p)
       \/ GetUserNone(p)
       \/ SelectEntriesOk(p)
       \/ SelectEntriesFail(p)
       \/ SelectIngredientsOk(p)
       \/ SelectIngredientsFail(p)
       \/ InsertListOk(p)
       \/ InsertListFail(p)
       \/ InsertItemsOk(p)
       \/ InsertItemsFail(p)

\* Two generations and any number of fetchItems calls over a one-entry plan.
InitLists ==
  /\ meal_plans = {PlanP1}
  /\ meal_plan_entries = SubSeq(ScenarioEntries, 1, 1)
  /\ recipe_ingredients = PlannerIngredients
  /\ shopping_lists = <<>>
  /\ shopping_list_items = <<>>
  /\ InitInvocations(Procs)

SpecLists == InitLists /\ [][NextLists]_vars

\* ------------------------------------------------- vocabulary of the claims
Returned(p) == pc[p] = "done"
Threw(p) == pc[p] = "thrown"
ThrownError(p) == Get(outcome[p]).error

\* Rows of shopping_list_items under one list, in insertion order.
ItemsOf(listId) ==
  SelectSeq(shopping_list_items, LAMBDA r : r.shopping_list_id = listId)

\* Rows under the list the invocation created.
InsertedBy(p) == IF IsNull(newList[p]) THEN <<>> ELSE ItemsOf(Get(newList[p]).id)

\* Requests of the invocation that failed, by verb.
Failed(p, verb) == \E i \in 1..Len(ops[p]) : ops[p][i].verb = verb /\ ~ops[p][i].ok
FailedOn(p, verb, table) ==
  \E i \in 1..Len(ops[p]) :
    ops[p][i].verb = verb /\ ops[p][i].table = table /\ ~ops[p][i].ok
Issued(p, verb, table) ==
  \E i \in 1..Len(ops[p]) : ops[p][i].verb = verb /\ ops[p][i].table = table

\* Requests sent to the tables (everything but the auth call).
StoreOps(p) == SelectSeq(ops[p], LAMBDA o : o.table # "auth")
WriteOps(p) == SelectSeq(ops[p], LAMBDA o : o.verb # "select" /\ o.table # "auth")

PairOfRow(r) == <<r.ingredient_name, r.unit>>
PairOfItem(r) == <<r.product_name, r.unit>>
InPairs(p) == { PairOfRow(fetched[p][i]) : i \in 1..Len(fetched[p]) }
OutPairs(p) == { PairOfItem(InsertedBy(p)[i]) : i \in 1..Len(InsertedBy(p)) }

RECURSIVE SumOf(_)
SumOf(s) == IF s = <<>> THEN 0 ELSE Head(s) + SumOf(Tail(s))

\* quantity x servings of the fetched rows with the pair k, a null quantity as 0.
InSum(p, k) ==
  LET rows == SelectSeq(fetched[p], LAMBDA r : PairOfRow(r) = k)
  IN SumOf([i \in 1..Len(rows) |->
              (IF IsNull(rows[i].quantity) THEN 0 ELSE Get(rows[i].quantity))
                * Get(rows[i].servings)])

\* Quantities of the inserted items with the pair k.
OutSum(p, k) ==
  LET rows == SelectSeq(InsertedBy(p), LAMBDA r : PairOfItem(r) = k)
  IN SumOf([i \in 1..Len(rows) |-> rows[i].quantity])

\* ------------------------------------------------------------------ claims

\* C1: the items a successful call inserts into its new list never contain
\* two items with the same (product_name, unit) pair, whatever the names and
\* units in the store.
C1_NoDuplicateKeys ==
  \A p \in Procs :
    Returned(p) =>
      \A i, j \in 1..Len(InsertedBy(p)) :
        i # j => PairOfItem(InsertedBy(p)[i]) # PairOfItem(InsertedBy(p)[j])

\* C2: for every (name, unit) pair the quantities of the output items with
\* that pair add up to the sum of quantity x servings over the fetched rows
\* with that pair.
C2_MergeCorrect ==
  \A p \in Procs :
    Returned(p) =>
      \A k \in InPairs(p) \cup OutPairs(p) : OutSum(p, k) = InSum(p, k)

\* C3: two fetched rows are accumulated into the same output item if and
\* only if their names are equal and their units are equal.
C3_MergeIffSamePair ==
  \A p \in Procs :
    \A i, j \in 1..Len(fetched[p]) :
      (fetched[p][i].slot = fetched[p][j].slot)
        <=> (PairOfRow(fetched[p][i]) = PairOfRow(fetched[p][j]))

\* C4: the (product_name, unit) pairs of the output are the distinct
\* (ingredient_name, unit) pairs of the fetched rows, each exactly once.
C4_OutputPairsAreInputPairs ==
  \A p \in Procs :
    Returned(p) =>
      /\ OutPairs(p) = InPairs(p)
      /\ Len(InsertedBy(p)) = Cardinality(InPairs(p))

\* C5: without a current user the call throws Not authenticated before any
\* request to a table is sent, and the store is as it was.
C5_NotAuthenticatedBeforeAnyRequest ==
  \A p \in Procs :
    Failed(p, "getUser") =>
      /\ Threw(p)
      /\ ThrownError(p) = NotAuthenticated
      /\ StoreOps(p) = <<>>
      /\ IsNull(newList[p])
      /\ ((\A q \in Procs \ {p} : pc[q] = "unused") =>
            shopping_lists = <<>> /\ shopping_list_items = <<>>)

C5_Witness == \E p \in Procs : Failed(p, "getUser") /\ Threw(p)

\* C6: when the entries select or the ingredients select of any entry fails,
\* the call throws the store's error and has sent no insert: no
\* shopping_lists row and no shopping_list_items row is from this call.
C6_FetchFailureBeforeAnyWrite ==
  \A p \in Procs :
    Failed(p, "select") =>
      /\ Threw(p)
      /\ ThrownError(p) \in StoreErrors
      /\ WriteOps(p) = <<>>
      /\ IsNull(newList[p])
      /\ ((\A q \in Procs \ {p} : pc[q] = "unused") =>
            shopping_lists = <<>> /\ shopping_list_items = <<>>)

\* The ingredients select of the second entry fails after the first was merged.
C6_Witness ==
  \E p \in Procs :
    /\ FailedOn(p, "select", "recipe_ingredients")
    /\ Threw(p)
    /\ idx[p] = 2
    /\ fetched[p] # <<>>

\* C7: when the items insert fails after the list was created, the call
\* throws and the new shopping_lists row stays, with none or part of its
\* items; no delete is sent.
C7_ItemsFailureLeavesList ==
  \A p \in Procs :
    FailedOn(p, "insert", "shopping_list_items") =>
      /\ Threw(p)
      /\ ThrownError(p) \in StoreErrors
      /\ ~IsNull(newList[p])
      /\ \E i \in 1..Len(shopping_lists) : shopping_lists[i].id = Get(newList[p]).id
      /\ Len(InsertedBy(p)) < Len(shoppingListItems[p]) \/ shoppingListItems[p] = <<>>
      /\ \A i \in 1..Len(ops[p]) : ops[p][i].verb \in {"getUser", "select", "insert"}

\* The items insert failed and left part of the items behind.
C7_Witness ==
  \E p \in Procs :
    /\ FailedOn(p, "insert", "shopping_list_items")
    /\ Threw(p)
    /\ Len(InsertedBy(p)) > 0

\* C8: a result is returned only when the auth call, the entries select, the
\* ingredients select of every entry with a recipe, the list insert and the
\* items insert have all succeeded; a failed step makes the call throw.
C8_NoSwallowedFailure ==
  \A p \in Procs :
    /\ (\E i \in 1..Len(ops[p]) : ~ops[p][i].ok) => Threw(p)
    /\ Threw(p) <=> (~IsNull(outcome[p]) /\ Get(outcome[p]).kind = "thrown")
    /\ Returned(p) <=> (~IsNull(outcome[p]) /\ Get(outcome[p]).kind = "returned")
    /\ Returned(p) =>
         /\ \A i \in 1..Len(ops[p]) : ops[p][i].ok
         /\ Issued(p, "getUser", "auth")
         /\ Issued(p, "select", "meal_plan_entries")
         /\ Len(SelectSeq(ops[p], LAMBDA o : o.table = "recipe_ingredients"))
              = Len(SelectSeq(mealEntries[p], LAMBDA e : ~IsNull(e.recipe_id)))
         /\ Issued(p, "insert", "shopping_lists")
         /\ Issued(p, "insert", "shopping_list_items")
         /\ Get(outcome[p]).value.success

C8_Witness == \E p \in Procs : Returned(p) /\ Len(fetched[p]) >= 2

\* What kind of failure made the invocation throw.
FailureKind(p) ==
  LET last == ops[p][Len(ops[p])]
  IN IF last.verb = "getUser" THEN "NotAuthenticated"
     ELSE IF last.verb = "select" THEN "FetchFailure"
     ELSE "WriteFailure"

\* C9: the thrown error alone tells the kind of failure: two calls that throw
\* the same error have failed in the same kind of step.
C9_ErrorTellsKind ==
  \A p, q \in Procs :
    (Threw(p) /\ Threw(q) /\ ThrownError(p) = ThrownError(q))
      => FailureKind(p) = FailureKind(q)

\* C10 as stated: whenever a list created by the call exists, all of its
\* merged items exist with it.
C10_ListNeverWithoutItems ==
  \A p \in Procs :
    ~IsNull(newList[p]) =>
      InsertedBy(p) = WithListId(shoppingListItems[p], Get(newList[p]).id)

\* C10 amended: a list of a call that returned holds exactly its merged
\* items; a list that lacks items belongs to a call that is waiting for its
\* items insert or whose items insert failed.
C10_ListCompleteOnReturn ==
  \A p \in Procs :
    ~IsNull(newList[p]) =>
      LET all == WithListId(shoppingListItems[p], Get(newList[p]).id)
      IN /\ Returned(p) => InsertedBy(p) = all
         /\ InsertedBy(p) # all =>
              pc[p] = "insertItems" \/ FailedOn(p, "insert", "shopping_list_items")
         /\ \E S \in SUBSET (1..Len(all)) : InsertedBy(p) = Pick(all, S)

C10_Witness == \E p \in Procs : Returned(p) /\ Len(InsertedBy(p)) >= 2

\* --------------------------------------------- contributions of the store
\* An entry of the table qualifies for a call: its plan is the call's plan and
\* its date lies in the call's range, both ends included.
Qualifies(e, a) ==
  /\ e.meal_plan_id = a.mealPlanId
  /\ a.startDate <= e.meal_date
  /\ e.meal_date <= a.endDate

\* The ingredient rows one entry of the table stands for, with its servings.
ContributionsOf(e) ==
  IF IsNull(e.recipe_id)
    THEN <<>>
    ELSE LET rows == SelectSeq(recipe_ingredients,
                               LAMBDA r : r.recipe_id = Get(e.recipe_id))
         IN [i \in 1..Len(rows) |->
               [ingredient_name |-> rows[i].ingredient_name,
                unit |-> rows[i].unit,
                quantity |-> rows[i].quantity,
                servings |-> e.servings]]

RECURSIVE ConcatAll(_)
ConcatAll(ss) == IF ss = <<>> THEN <<>> ELSE Head(ss) \o ConcatAll(Tail(ss))

\* What the qualifying entries of the table contribute to a call, in order.
ExpectedContributions(a) ==
  LET qual == SelectSeq(meal_plan_entries, LAMBDA e : Qualifies(e, a))
  IN ConcatAll([i \in 1..Len(qual) |-> ContributionsOf(qual[i])])

\* What the call has accumulated, in order.
Contributions(p) ==
  [i \in 1..Len(fetched[p]) |->
     [ingredient_name |-> fetched[p][i].ingredient_name,
      unit |-> fetched[p][i].unit,
      quantity |-> fetched[p][i].quantity,
      servings |-> fetched[p][i].servings]]

\* quantity x servings of one contribution, null as 0.
Amount(c) ==
  (IF IsNull(c.quantity) THEN 0 ELSE Get(c.quantity))
    * (IF IsNull(c.servings) THEN 0 ELSE Get(c.servings))

TotalOf(cs) == SumOf([i \in 1..Len(cs) |-> Amount(cs[i])])
TotalInserted(p) == SumOf([i \in 1..Len(InsertedBy(p)) |-> InsertedBy(p)[i].quantity])

\* C11: exactly the entries of the given plan dated from startDate to endDate,
\* both included, contribute to a call that returned: what it accumulated is
\* what those entries stand for, and the inserted quantities add up to it.
C11_OnlyEntriesInRangeContribute ==
  \A p \in Procs :
    Returned(p) =>
      /\ Contributions(p) = ExpectedContributions(args[p])
      /\ TotalInserted(p) = TotalOf(ExpectedContributions(args[p]))

\* A returned call whose plan has an entry dated exactly startDate, which
\* contributed, and an entry dated after endDate.
C11_Witness ==
  \E p \in Procs :
    /\ Returned(p)
    /\ fetched[p] # <<>>
    /\ \E i, j \in 1..Len(meal_plan_entries) :
         /\ meal_plan_entries[i].meal_plan_id = args[p].mealPlanId
         /\ meal_plan_entries[i].meal_date = args[p].startDate
         /\ meal_plan_entries[j].meal_plan_id = args[p].mealPlanId
         /\ meal_plan_entries[j].meal_date > args[p].endDate

\* The entries a call was given whose recipe_id is set.
WithRecipe(p) == SelectSeq(mealEntries[p], LAMBDA e : ~IsNull(e.recipe_id))
IngredientSelects(p) == SelectSeq(ops[p], LAMBDA o : o.table = "recipe_ingredients")

\* C12: an entry without a recipe is skipped: no ingredients select is sent
\* for it and nothing is accumulated for it; an entry whose recipe has no
\* ingredient rows accumulates nothing, and every item comes from a row.
C12_NullRecipeSkipped ==
  \A p \in Procs :
    /\ \A i \in 1..Len(fetched[p]) :
         ~IsNull(mealEntries[p][fetched[p][i].entry].recipe_id)
    /\ Len(IngredientSelects(p)) <= Len(WithRecipe(p))
    /\ \A i \in 1..Len(shoppingListItems[p]) :
         \E j \in 1..Len(fetched[p]) : fetched[p][j].slot = i
    /\ Returned(p) =>
         /\ Len(IngredientSelects(p)) = Len(WithRecipe(p))
         /\ Contributions(p) =
              ConcatAll([i \in 1..Len(WithRecipe(p)) |-> ContributionsOf(WithRecipe(p)[i])])
         /\ TotalInserted(p) = TotalOf(Contributions(p))
         /\ Len(InsertedBy(p)) <= Len(fetched[p])

\* A returned call that was given an entry without a recipe first, and then
\* an entry whose recipe has rows.
C12_Witness ==
  \E p \in Procs :
    /\ Returned(p)
    /\ Len(mealEntries[p]) = 2
    /\ IsNull(mealEntries[p][1].recipe_id)
    /\ fetched[p] # <<>>

\* The entries select of the call has answered with rows.
EntriesRead(p) ==
  \E i \in 1..Len(ops[p]) : ops[p][i].table = "meal_plan_entries" /\ ops[p][i].ok

\* C13: with no qualifying entry, or only entries without a recipe, the call
\* does not fail by itself: it goes on to insert a list and zero items, throws
\* only when one of the two inserts fails, and returns itemCount = 0 for a
\* list without items.
C13_EmptyPlanGivesEmptyList ==
  \A p \in Procs :
    (EntriesRead(p) /\ WithRecipe(p) = <<>>) =>
      /\ pc[p] \in {"insertList", "insertItems", "done", "thrown"}
      /\ shoppingListItems[p] = <<>>
      /\ Threw(p) => Failed(p, "insert")
      /\ Returned(p) =>
           /\ Get(outcome[p]).value.itemCount = 0
           /\ Get(outcome[p]).value.success
           /\ InsertedBy(p) = <<>>
           /\ \E i \in 1..Len(shopping_lists) :
                shopping_lists[i].id = Get(outcome[p]).value.listId

\* A returned call that was given entries, none of them with a recipe.
C13_Witness ==
  \E p \in Procs :
    /\ Returned(p)
    /\ mealEntries[p] # <<>>
    /\ WithRecipe(p) = <<>>

\* The (product_name, quantity, unit) triples of the items under the call's list.
TriplesOf(p) ==
  { <<InsertedBy(p)[i].product_name, InsertedBy(p)[i].quantity, InsertedBy(p)[i].unit>> :
      i \in 1..Len(InsertedBy(p)) }

\* C14: in the end-to-end scenario (A with 2 servings, B with 1) a call that
\* returned has inserted exactly Rice 250 g, Egg 4 pcs and Onion 1 pcs, and
\* its itemCount is 3.
C14_EndToEndScenario ==
  \A p \in Procs :
    Returned(p) =>
      /\ TriplesOf(p) = { <<Rice, 250, Some(Grams)>>,
                          <<Egg, 4, Some(Pieces)>>,
                          <<Onion, 1, Some(Pieces)>> }
      /\ Len(InsertedBy(p)) = 3
      /\ Get(outcome[p]).value.itemCount = 3

C14_Witness == \E p \in Procs : Returned(p) /\ Len(fetched[p]) = 4

\* C15: the returned listId is the id of the list row this call created, and
\* the returned itemCount is the number of rows the call inserted under that
\* list, which is the number of distinct (name, unit) pairs it accumulated.
C15_ReturnedSummary ==
  \A p \in Procs :
    Returned(p) =>
      LET value == Get(outcome[p]).value
      IN /\ value.listId = Get(newList[p]).id
         /\ \E i \in 1..Len(shopping_lists) : shopping_lists[i].id = value.listId
         /\ value.itemCount = Len(ItemsOf(value.listId))
         /\ value.itemCount = ops[p][Len(ops[p])].rows
         /\ value.itemCount = Cardinality(InPairs(p))

\* The shopping_lists rows with the id of the list the call created.
CreatedRows(p) ==
  SelectSeq(shopping_lists, LAMBDA l : ~IsNull(newList[p]) /\ l.id = Get(newList[p]).id)

\* C16: a call that returned has created exactly one shopping_lists row; its
\* owner is the user the auth call answered with, its meal_plan_id is the
\* mealPlanId argument and its name is "Shopping List for {startDate} to
\* {endDate}" of the arguments.
C16_OneListRowPerCall ==
  \A p \in Procs :
    Returned(p) =>
      /\ Len(SelectSeq(ops[p], LAMBDA o : o.table = "shopping_lists")) = 1
      /\ Len(CreatedRows(p)) = 1
      /\ CreatedRows(p)[1].user_id = Get(authData[p])
      /\ CreatedRows(p)[1].meal_plan_id = args[p].mealPlanId
      /\ CreatedRows(p)[1].name =
           <<"Shopping List for ", args[p].startDate, " to ", args[p].endDate>>
      /\ Len(shopping_lists) = Cardinality({q \in Procs : ~IsNull(newList[q])})

\* A call of the second user for the second plan has returned.
C16_Witness ==
  \E p \in Procs :
    /\ Returned(p)
    /\ Get(authData[p]) = "u2"
    /\ args[p].mealPlanId = "P2"

ListIds == { shopping_lists[i].id : i \in 1..Len(shopping_lists) }

\* C17: every step that adds rows to shopping_list_items is the items insert
\* of one call; the rows it adds are not purchased and lie under the list
\* that this call created, a list that did not exist before the call's own
\* list insert.
C17_ItemsUnderOwnNewList ==
  [][ /\ shopping_list_items' # shopping_list_items =>
           \E p \in Procs :
             /\ pc[p] = "insertItems" /\ pc'[p] # "insertItems"
             /\ Len(shopping_list_items') >= Len(shopping_list_items)
             /\ SubSeq(shopping_list_items', 1, Len(shopping_list_items)) = shopping_list_items
             /\ \A i \in (Len(shopping_list_items) + 1)..Len(shopping_list_items') :
                  /\ shopping_list_items'[i].shopping_list_id = Get(newList[p]).id
                  /\ shopping_list_items'[i].is_purchased = FALSE
      /\ \A p \in Procs :
           newList'[p] # newList[p] =>
             /\ pc[p] = "insertList"
             /\ IsNull(newList[p])
             /\ Get(newList'[p]).id \notin ListIds
             /\ Get(newList'[p]).id \in ListIds' ]_vars

\* A call has put items under its list while an older list exists.
C17_Witness ==
  \E p \in Procs :
    /\ Returned(p)
    /\ InsertedBy(p) # <<>>
    /\ \E i \in 1..Len(shopping_lists) : shopping_lists[i].id < Get(newList[p]).id

\* How many items under the call's list carry the triple t.
CountOf(p, t) ==
  Cardinality({ i \in 1..Len(InsertedBy(p)) :
                  <<InsertedBy(p)[i].product_name, InsertedBy(p)[i].quantity,
                    InsertedBy(p)[i].unit>> = t })

\* C18: two calls for the same arguments that returned, against the same
\* entries and ingredients, have inserted the same items up to order,
\* whatever the other call had accumulated before.
C18_NoStateBetweenCalls ==
  \A p, q \in Procs :
    (Returned(p) /\ Returned(q) /\ args[p] = args[q]) =>
      \A t \in TriplesOf(p) \cup TriplesOf(q) : CountOf(p, t) = CountOf(q, t)

\* Both calls returned, the second list was created after the first, with items.
C18_Witness ==
  /\ \A p \in Procs : Returned(p) /\ InsertedBy(p) # <<>>
  /\ \E p, q \in Procs : Get(newList[p]).id < Get(newList[q]).id

\* C19: zero or negative servings do not make the call fail: every fetched
\* row is keyed into the accumulator, the call throws only when a request
\* failed, and each inserted quantity is the arithmetic sum of quantity x
\* servings of its rows, which may be zero or negative.
C19_SignedServingsMultiplied ==
  \A p \in Procs :
    /\ \A i \in 1..Len(fetched[p]) :
         /\ fetched[p][i].slot \in 1..Len(ingredients[p])
         /\ ingredients[p][fetched[p][i].slot].key = KeyOf(fetched[p][i])
    /\ Threw(p) => \E i \in 1..Len(ops[p]) : ~ops[p][i].ok
    /\ Returned(p) =>
         /\ OutPairs(p) = InPairs(p)
         /\ \A k \in InPairs(p) : OutSum(p, k) = InSum(p, k)

\* A returned call has inserted an item with a negative quantity and one
\* with quantity zero.
C19_Witness ==
  \E p \in Procs :
    /\ Returned(p)
    /\ \E i, j \in 1..Len(InsertedBy(p)) :
         InsertedBy(p)[i].quantity < 0 /\ InsertedBy(p)[j].quantity = 0

\* quantity x servings of the fetched rows accumulated into slot s, a null
\* quantity as 0.
SlotSum(p, s) ==
  LET rows == SelectSeq(fetched[p], LAMBDA r : r.slot = s)
  IN SumOf([i \in 1..Len(rows) |->
              (IF IsNull(rows[i].quantity) THEN 0 ELSE Get(rows[i].quantity))
                * Get(rows[i].servings)])

\* C20: a row with a null quantity adds 0 to the item it is merged into and
\* leaves the contributions of the other rows of that item intact: every
\* accumulated and every inserted quantity is the sum over its rows.
C20_NullQuantityAddsZero ==
  \A p \in Procs :
    /\ \A s \in 1..Len(ingredients[p]) : ingredients[p][s].quantity = SlotSum(p, s)
    /\ Returned(p) =>
         /\ Len(InsertedBy(p)) = Len(ingredients[p])
         /\ \A s \in 1..Len(InsertedBy(p)) : InsertedBy(p)[s].quantity = SlotSum(p, s)

\* A returned call has merged a row with a null quantity and a row with a
\* quantity into one item.
C20_Witness ==
  \E p \in Procs :
    /\ Returned(p)
    /\ \E i, j \in 1..Len(fetched[p]) :
         /\ fetched[p][i].slot = fetched[p][j].slot
         /\ IsNull(fetched[p][i].quantity)
         /\ ~IsNull(fetched[p][j].quantity)

RECURSIVE AggregateCached(_, _, _)
AggregateCached(acc, cache, entries) ==
  IF entries = <<>>
    THEN acc
    ELSE IF IsNull(Head(entries).recipe_id)
      THEN AggregateCached(acc, cache, Tail(entries))
      ELSE LET r == Get(Head(entries).recipe_id)
               rows == IF r \in DOMAIN cache THEN cache[r] ELSE QueryRecipeIngredients(r)
               cache1 == [x \in DOMAIN cache \cup {r} |-> IF x = r THEN rows ELSE cache[x]]
           IN AggregateCached(AccumulateAll(acc, rows, Head(entries)), cache1, Tail(entries))

EmptyCache == [x \in {} |-> <<>>]
TriplesOfItems(items) ==
  { <<items[i].product_name, items[i].quantity, items[i].unit>> : i \in 1..Len(items) }

\* C22: the items a call has inserted, fetching once per entry, are the items
\* the aggregation with a cache per recipe gives for the same entries and the
\* same recipe_ingredients.
C22_PerEntryEqualsCached ==
  \A p \in Procs :
    Returned(p) =>
      LET cached == MapItems(AggregateCached(<<>>, EmptyCache, mealEntries[p]))
      IN /\ TriplesOf(p) = TriplesOfItems(cached)
         /\ Len(InsertedBy(p)) = Len(cached)

\* A returned call whose two entries name the same recipe, which has rows.
C22_Witness ==
  \E p \in Procs :
    /\ Returned(p)
    /\ Len(mealEntries[p]) = 2
    /\ ~IsNull(mealEntries[p][1].recipe_id)
    /\ mealEntries[p][1].recipe_id = mealEntries[p][2].recipe_id
    /\ mealEntries[p][1].servings # mealEntries[p][2].servings
    /\ Len(fetched[p]) >= 2

IsPrefix(s, t) == Len(s) <= Len(t) /\ SubSeq(t, 1, Len(s)) = s

\* C23: no step of a call changes meal_plans, meal_plan_entries or
\* recipe_ingredients, and the shopping_lists and shopping_list_items rows
\* that exist stay as they are: rows are only added after them.
C23_OnlyReadsAndAppends ==
  [][ /\ meal_plans' = meal_plans
      /\ meal_plan_entries' = meal_plan_entries
      /\ recipe_ingredients' = recipe_ingredients
      /\ IsPrefix(shopping_lists, shopping_lists')
      /\ IsPrefix(shopping_list_items, shopping_list_items') ]_vars

\* A call has failed on its items insert after another call had returned with
\* a list and items.
C23_Witness ==
  \E p, q \in Procs :
    /\ Returned(p) /\ InsertedBy(p) # <<>>
    /\ Threw(q) /\ ~IsNull(newList[q])
    /\ Get(newList[p]).id < Get(newList[q]).id

\* C25: two interleaved calls create two different lists; a step of one call
\* leaves the items under the other call's list as they are, and the items
\* under a call's list are items that this call has mapped.
C25_InterleavedCallsKeepApart ==
  [][ \A p, q \in Procs :
        p # q =>
          /\ (~IsNull(newList'[p]) /\ ~IsNull(newList'[q])) =>
               Get(newList'[p]).id # Get(newList'[q]).id
          /\ (pc'[q] # pc[q] /\ ~IsNull(newList[p])) =>
               SelectSeq(shopping_list_items',
                         LAMBDA r : r.shopping_list_id = Get(newList[p]).id)
                 = InsertedBy(p)
          /\ ~IsNull(newList'[p]) =>
               LET mine == SelectSeq(shopping_list_items',
                                     LAMBDA r : r.shopping_list_id = Get(newList'[p]).id)
                   all == WithListId(shoppingListItems'[p], Get(newList'[p]).id)
               IN \E S \in SUBSET (1..Len(all)) : mine = Pick(all, S) ]_vars

\* Both calls returned for the same plan with items, and the call that
\* created the first list inserted its items last.
C25_Witness ==
  \E p, q \in Procs :
    /\ Returned(p) /\ Returned(q)
    /\ args[p] = args[q]
    /\ Get(newList[p]).id < Get(newList[q]).id
    /\ InsertedBy(p) # <<>> /\ InsertedBy(q) # <<>>
    /\ shopping_list_items[1].shopping_list_id = Get(newList[q]).id

\* C28: when the shopping_lists insert fails the call throws the store's
\* error and sends no items insert, so no item is from this call; an items
\* insert is sent only after a shopping_lists insert of the same call that
\* succeeded.
C28_ListFailureSendsNoItems ==
  \A p \in Procs :
    /\ FailedOn(p, "insert", "shopping_lists") =>
         /\ Threw(p)
         /\ ThrownError(p) \in StoreErrors
         /\ ~Issued(p, "insert", "shopping_list_items")
         /\ IsNull(newList[p])
         /\ ((\A q \in Procs \ {p} : pc[q] = "unused") => shopping_list_items = <<>>)
    /\ \A i \in 1..Len(ops[p]) :
         ops[p][i].table = "shopping_list_items" =>
           \E j \in 1..(i - 1) : ops[p][j].table = "shopping_lists" /\ ops[p][j].ok

\* The list insert failed for a call that had items to insert.
C28_Witness ==
  \E p \in Procs :
    /\ FailedOn(p, "insert", "shopping_lists")
    /\ Threw(p)
    /\ shoppingListItems[p] # <<>>

\* C24: every entry added through addMeal is stored with servings that are a
\* positive integer, whatever text is in the servings field.
C24_StoredServingsPositive ==
  \A i \in 1..Len(meal_plan_entries) :
    /\ ~IsNull(meal_plan_entries[i].servings)
    /\ Get(meal_plan_entries[i].servings) \in Nat \ {0}

\* C26: isGenerating is true exactly while generateShoppingListFromPlan awaits
\* a call, at most one call is awaited at a time, and a call is started only
\* while isGenerating is false.
C26_GeneratingWhileInFlight ==
  [][ /\ isGenerating' <=> \E p \in Procs : awaited'[p]
      /\ Cardinality({ p \in Procs : awaited'[p] }) <= 1
      /\ \A p \in Procs : awaited'[p] => pc'[p] \notin {"idle", "unused"}
      /\ \A p \in Procs :
           (pc[p] = "idle" /\ pc'[p] # "idle") => (~isGenerating /\ isGenerating')
      /\ \A p \in Procs :
           (awaited[p] /\ ~awaited'[p]) => (pc[p] \in {"done", "thrown"} /\ ~isGenerating') ]_vars

\* A generation that was started after an earlier one had been settled and
\* had left a list has thrown and is not settled yet.
C26_Witness ==
  \E p \in Procs :
    /\ awaited[p] /\ isGenerating
    /\ Threw(p)
    /\ Len(shopping_lists) = 2

\* C29: a plan never holds two entries in the same (meal_date, meal_type)
\* slot, so every entry is the one the planner shows for its slot.
C29_OneEntryPerSlot ==
  /\ \A i, j \in 1..Len(meal_plan_entries) :
       (/\ i # j
        /\ meal_plan_entries[i].meal_plan_id = meal_plan_entries[j].meal_plan_id
        /\ meal_plan_entries[i].meal_date = meal_plan_entries[j].meal_date) =>
         meal_plan_entries[i].meal_type # meal_plan_entries[j].meal_type
  /\ \A i \in 1..Len(meal_plan_entries) :
       meal_plan_entries[i] \in
         Displayed(meal_plan_entries[i].meal_date, meal_plan_entries[i].meal_type)

\* The arguments generateShoppingListFromPlan passes for a plan.
ArgsOf(plan) ==
  [mealPlanId |-> plan.id, startDate |-> plan.start_date, endDate |-> plan.end_date]

\* Every entry is dated inside the range of its plan.
EntriesInRange ==
  \A i \in 1..Len(meal_plan_entries) :
    \E plan \in meal_plans :
      /\ plan.id = meal_plan_entries[i].meal_plan_id
      /\ plan.start_date <= meal_plan_entries[i].meal_date
      /\ meal_plan_entries[i].meal_date <= plan.end_date

\* C30: every entry added through addMeal is dated inside the range of its
\* plan, and the entries select of a generation started from the planner
\* answers with every entry the plan holds at that time.
C30_AddedEntriesInRange ==
  [][ /\ EntriesInRange'
      /\ \A p \in Procs :
           (pc[p] = "selectEntries" /\ pc'[p] \in {"selectIngredients", "insertList"}) =>
             /\ args[p] = ArgsOf(Get(mealPlan))
             /\ Len(mealEntries'[p]) = Len(meal_plan_entries)
             /\ \A i \in 1..Len(meal_plan_entries) :
                  /\ mealEntries'[p][i].recipe_id = meal_plan_entries[i].recipe_id
                  /\ mealEntries'[p][i].servings = meal_plan_entries[i].servings ]_vars

\* A generation has read two entries, one on the first and one on the last
\* day of the plan.
C30_Witness ==
  \E p \in Procs :
    /\ Returned(p)
    /\ Len(mealEntries[p]) = 2
    /\ \E i, j \in 1..Len(meal_plan_entries) :
         /\ meal_plan_entries[i].meal_date = args[p].startDate
         /\ meal_plan_entries[j].meal_date = args[p].endDate

\* C27: fetchItems inserts a Current Shopping List row only when its select
\* found that the user owns no list; when the user owns one list or more it
\* inserts none, so repeated fetchItems calls do not add lists.
C27_CurrentListOnlyWhenNone ==
  fiPc = "insertList" => fiSaw = 0

====
